---- MODULE Spec2Model ----
(***************************************************************************)
(* State-machine model of the nanogpt-discord persistence layer           *)
(* (db/index.ts: guilds, users, contexts, memories tables and the helper   *)
(* functions over them) and of the command handlers that call it.          *)
(*                                                                         *)
(* bun:sqlite is synchronous and the bot runs on one JavaScript thread, so *)
(* every helper function is one atomic step; concurrency is the            *)
(* interleaving of these steps between independent interactions.           *)
(***************************************************************************)
EXTENDS Integers, Sequences, FiniteSets, TLC

VARIABLES
    guilds,     \* table guilds: set of rows [id, default_model]
    users,      \* table users: set of rows [id, default_model]
    contexts,   \* table contexts: set of rows [id, guild_id, user_id, name, content]
    ctxSeq,     \* AUTOINCREMENT counter of contexts (last id handed out)
    memories,   \* table memories: set of rows [id, user_id, role, content, created_at]
    memSeq,     \* AUTOINCREMENT counter of memories
    now,        \* unixepoch(): wall clock in whole seconds
    env,        \* process.env.DEFAULT_MODEL
    calls,      \* addContext invocations of the interactions in flight
    ret,        \* the last helper call: its name, arguments and return value
    lastSet,    \* history variable: last model passed to setUserModel / setGuildModel per
                \* id, which of the two was called last, and whether that call
                \* found a row holding another model
    appended,   \* history variable: per user, appends since the last clearMemory
    memBy,      \* history variable: memBy[id] = guild and user of the interaction that appended memory row id
    seg,        \* the reply being split by a chat handler: the model's message, the
                \* local variables remaining and chunks, and the position in the code
    inter,      \* the interaction each process handles: its command and options, the
                \* position of the handler, the request it built and its outcome
    features,   \* process.env.DISABLE_<FEATURE>
    img         \* commands/imagine.ts: cachedImageModels, cacheTimestamp, Date.now(),
                \* the getImageModelsCached calls in flight, and the times the
                \* remote API was contacted (history)

vars == <<guilds, users, contexts, ctxSeq, memories, memSeq, now, env, calls, ret,
          lastSet, appended, memBy, seg, inter, features, img>>

\* SQL NULL / JavaScript null or undefined, for TEXT values
NULL == "NULL"

Guilds == {"g1", "g2"}
Users == {"u1", "u2"}
\* model names a /setmodel caller can pass (Discord string options are non-empty)
Models == {"gpt-a", "gpt-b"}
\* values process.env.DEFAULT_MODEL can have: unset, empty, or a model name
EnvModels == {NULL, "", "env-model"}

\* JavaScript truthiness of a string-or-null value
Truthy(s) == s # NULL /\ s # ""

\* first row of a result set that holds one
RowOf(S) == CHOOSE r \in S : TRUE

(***************************************************************************)
(* Preference resolver                                                     *)
(***************************************************************************)

\* queries.getGuild: SELECT * FROM guilds WHERE id = ?
getGuild(id) == {r \in guilds : r.id = id}

\* queries.getUser: SELECT * FROM users WHERE id = ?
getUser(id) == {r \in users : r.id = id}

\* INSERT OR IGNORE: the variant that keeps the old row on conflict
upsertIgnore(table, id, model) ==
    IF \E r \in table : r.id = id THEN table
    ELSE table \cup {[id |-> id, default_model |-> model]}

\* a plain INSERT on a table without the primary key
upsertDuplicate(table, id, model) ==
    table \cup {[id |-> id, default_model |-> model]}

\* queries.upsertGuild / queries.upsertUser:
\* INSERT ... ON CONFLICT(id) DO UPDATE SET default_model = excluded.default_model
upsert(table, id, model) ==
    {r \in table : r.id # id} \cup {[id |-> id, default_model |-> model]}

\* process.env.DEFAULT_MODEL || "gpt-4o-mini"
FallbackModel == IF Truthy(env) THEN env ELSE "gpt-4o-mini"

\* the variant that consults the guild before the user
getDefaultModelGuildFirst(guildId, userId) ==
    LET user == getUser(userId)
        guild == getGuild(guildId)
    IN  IF guild # {} /\ Truthy(RowOf(guild).default_model)
        THEN RowOf(guild).default_model
        ELSE IF user # {} /\ Truthy(RowOf(user).default_model)
        THEN RowOf(user).default_model
        ELSE FallbackModel

\* getDefaultModel(guildId, userId)
getDefaultModel(guildId, userId) ==
    LET user == getUser(userId)
        guild == getGuild(guildId)
    IN  IF user # {} /\ Truthy(RowOf(user).default_model)
        THEN RowOf(user).default_model
        ELSE IF guild # {} /\ Truthy(RowOf(guild).default_model)
        THEN RowOf(guild).default_model
        ELSE FallbackModel

\* setUserModel that leaves an existing row alone
upsertUserIgnore(id, model) == upsertIgnore(users, id, model)

\* upsertUser as called by setUserModel
upsertUser(id, model) == upsert(users, id, model)

\* upsertGuild as called by setGuildModel
upsertGuild(id, model) == upsert(guilds, id, model)

SetGuildModel(g, m) ==
    /\ guilds' = upsertGuild(g, m)
    /\ lastSet' = [lastSet EXCEPT !.guild[g] = m, !.last = "guild",
                                  !.over = \E r \in guilds : r.id = g /\ r.default_model # m]
    /\ ret' = [op |-> "setGuildModel", g |-> g, model |-> m]
    /\ UNCHANGED <<inter, features, img, seg, users, contexts, ctxSeq, memories, memSeq, now, env, calls,
                   appended, memBy>>

SetUserModel(u, m) ==
    /\ users' = upsertUser(u, m)
    /\ lastSet' = [lastSet EXCEPT !.user[u] = m, !.last = "user",
                                  !.over = \E r \in users : r.id = u /\ r.default_model # m]
    /\ ret' = [op |-> "setUserModel", u |-> u, model |-> m]
    /\ UNCHANGED <<inter, features, img, seg, guilds, contexts, ctxSeq, memories, memSeq, now, env, calls,
                   appended, memBy>>

GetDefaultModel(g, u) ==
    /\ ret' = [op |-> "getDefaultModel", g |-> g, u |-> u,
               model |-> getDefaultModel(g, u)]
    /\ UNCHANGED <<inter, features, img, seg, guilds, users, contexts, ctxSeq, memories, memSeq, now, env,
                   calls, lastSet, appended, memBy>>

(***************************************************************************)
(* Context resolver                                                        *)
(*                                                                         *)
(* A contexts row carries the columns the constraint and the queries read  *)
(* (id, guild_id, user_id, name) and its content; source_filename and      *)
(* file_type are payload no statement selects on.  A listing is            *)
(* represented by the set of its rows.                                     *)
(***************************************************************************)

Names == {"n1", "n2"}
Contents == {"c1", "c2"}
\* a scope argument: a user id, or NULL for the server scope
Scopes == Users \cup {NULL}

\* the contexts table accepts inserts until AUTOINCREMENT reaches this id
MaxCtxId == 2

\* the rows of scope u (a user id, or NULL for the server) of guild g named n
KeyRows(g, u, n) == {r \in contexts : r.guild_id = g /\ r.user_id = u /\ r.name = n}

\* UNIQUE(guild_id, user_id, name): SQLite treats every NULL as distinct from
\* every other value in a UNIQUE constraint, NULL included, so a row conflicts
\* only with a row whose three columns are equal and not NULL
UniqueViolation(g, u, n) ==
    \E r \in contexts :
        /\ r.guild_id = g /\ r.name = n
        /\ r.user_id # NULL /\ u # NULL /\ r.user_id = u

\* queries.getServerContext: WHERE guild_id = ? AND name = ? AND user_id IS NULL
getServerContext(g, n) ==
    {r \in contexts : r.guild_id = g /\ r.name = n /\ r.user_id = NULL}

\* queries.getServerContexts: WHERE guild_id = ? AND user_id IS NULL
getServerContexts(g) ==
    {r \in contexts : r.guild_id = g /\ r.user_id = NULL}

\* a lookup of the user's context in whatever guild
getUserContextAnyGuild(g, u, n) ==
    {r \in contexts : r.user_id # NULL /\ r.user_id = u /\ r.name = n}

\* queries.getUserContext: WHERE guild_id = ? AND user_id = ? AND name = ?
\* (user_id = ? is never true of a NULL user_id)
getUserContext(g, u, n) ==
    {r \in contexts : r.guild_id = g /\ r.user_id # NULL /\ r.user_id = u /\ r.name = n}

\* queries.getUserContexts: WHERE guild_id = ? AND user_id = ?
getUserContexts(g, u) ==
    {r \in contexts : r.guild_id = g /\ r.user_id # NULL /\ r.user_id = u}

\* INSERT INTO contexts (...): the table after the statement, and whether it
\* ran (ok) or raised SQLITE_CONSTRAINT_UNIQUE
insertContext(g, u, n, c) ==
    IF UniqueViolation(g, u, n)
    THEN [ok |-> FALSE, rows |-> contexts]
    ELSE [ok |-> TRUE,
          rows |-> contexts \cup {[id |-> ctxSeq + 1, guild_id |-> g, user_id |-> u,
                                   name |-> n, content |-> c]}]

\* addContext(guildId, name, content, sourceFilename, fileType, userId?)
addContext(guildId, name, content, userId) ==
    IF Truthy(userId)
    THEN insertContext(guildId, userId, name, content)
    ELSE insertContext(guildId, NULL, name, content)

\* the variant that looks at the server scope first
getContextServerFirst(guildId, name, userId) ==
    LET userContext == IF Truthy(userId) THEN getUserContext(guildId, userId, name) ELSE {}
        serverContext == getServerContext(guildId, name)
    IN  IF serverContext # {} THEN {<<r>> : r \in serverContext}
        ELSE IF userContext # {} THEN {<<r>> : r \in userContext}
        ELSE {<<>>}

\* getContext(guildId, name, userId?): the values the call can return, each a
\* sequence holding the row, or empty for null.  Statement.get() returns the
\* first row of the result set; which row is first is not fixed by the query.
getContext(guildId, name, userId) ==
    LET userContext == IF Truthy(userId) THEN getUserContext(guildId, userId, name) ELSE {}
        serverContext == getServerContext(guildId, name)
    IN  IF userContext # {} THEN {<<r>> : r \in userContext}
        ELSE IF serverContext # {} THEN {<<r>> : r \in serverContext}
        ELSE {<<>>}

\* a listing that adds the server's rows to the user's
getAllContextsMerged(guildId, userId) ==
    IF Truthy(userId) THEN getUserContexts(guildId, userId) \cup getServerContexts(guildId)
    ELSE getServerContexts(guildId)

\* getAllContexts(guildId, userId?)
getAllContexts(guildId, userId) ==
    IF Truthy(userId) THEN getUserContexts(guildId, userId)
    ELSE getServerContexts(guildId)

\* a DELETE by guild and name alone
removeContextAnyScope(guildId, name, userId) ==
    {r \in contexts : r.guild_id = guildId /\ r.name = name}

\* removeContext(guildId, name, userId?): the rows the DELETE removes
\* (result.changes is their number)
removeContext(guildId, name, userId) ==
    IF Truthy(userId) THEN getUserContext(guildId, userId, name)
    ELSE getServerContext(guildId, name)

AddContext(g, n, c, u) ==
    /\ addContext(g, n, c, u).ok => ctxSeq < MaxCtxId
    /\ LET res == addContext(g, n, c, u)
       IN  /\ contexts' = res.rows
           /\ ctxSeq' = IF res.ok THEN ctxSeq + 1 ELSE ctxSeq
           /\ ret' = [op |-> "addContext", g |-> g, n |-> n, u |-> u, c |-> c,
                      ok |-> res.ok]
    /\ UNCHANGED <<inter, features, img, seg, guilds, users, memories, memSeq, now, env, calls, lastSet,
                   appended, memBy>>

GetContext(g, n, u) ==
    /\ \E res \in getContext(g, n, u) :
           ret' = [op |-> "getContext", g |-> g, n |-> n, u |-> u, row |-> res]
    /\ UNCHANGED <<inter, features, img, seg, guilds, users, contexts, ctxSeq, memories, memSeq, now, env,
                   calls, lastSet, appended, memBy>>

GetAllContexts(g, u) ==
    /\ ret' = [op |-> "getAllContexts", g |-> g, u |-> u,
               rows |-> getAllContexts(g, u)]
    /\ UNCHANGED <<inter, features, img, seg, guilds, users, contexts, ctxSeq, memories, memSeq, now, env,
                   calls, lastSet, appended, memBy>>

\* history bookkeeping: a DELETE that removed rows of key (g, u, n) is noted
\* on every addContext invocation for that key that is in flight or finished
NoteRemoved(g, n, u, deleted) ==
    [p \in DOMAIN calls |->
        IF /\ deleted # {} /\ calls[p].st # "idle"
           /\ calls[p].g = g /\ calls[p].n = n /\ calls[p].u = u
        THEN [calls[p] EXCEPT !.removed = TRUE]
        ELSE calls[p]]

RemoveContext(g, n, u) ==
    /\ LET deleted == removeContext(g, n, u)
       IN  /\ contexts' = contexts \ deleted
           /\ calls' = NoteRemoved(g, n, u, deleted)
           /\ ret' = [op |-> "removeContext", g |-> g, n |-> n, u |-> u,
                      ok |-> Cardinality(deleted) > 0]
    /\ UNCHANGED <<inter, features, img, seg, guilds, users, ctxSeq, memories, memSeq, now, env, lastSet,
                   appended, memBy>>

(***************************************************************************)
(* Interactions that call addContext.  A command handler is an async       *)
(* function run once per interaction; between its awaits other handlers    *)
(* run, so an addContext call of one interaction can be in flight          *)
(* ("pending": the handler has the arguments and has not yet made the      *)
(* call) while another interaction makes the same call.                    *)
(***************************************************************************)

Procs == {"p1", "p2"}

IdleCall == [st |-> "idle", g |-> NULL, n |-> NULL, u |-> NULL, c |-> NULL,
             pre |-> FALSE, overlap |-> FALSE, removed |-> FALSE, ok |-> FALSE]

SameKey(a, g, n, u) == a.g = g /\ a.n = n /\ a.u = u

\* interaction p reaches the point where it will call addContext(g, n, c, .., u)
\*   pre:     a row of that key was in the table at this point
\*   overlap: another call for the same key is in flight at the same time
CallAddContext(p, g, n, c, u) ==
    /\ calls[p].st # "pending"
    /\ LET others == {q \in Procs \ {p} : calls[q].st = "pending" /\ SameKey(calls[q], g, n, u)}
       IN  calls' = [q \in Procs |->
                IF q = p
                THEN [st |-> "pending", g |-> g, n |-> n, u |-> u, c |-> c,
                      pre |-> KeyRows(g, u, n) # {},
                      overlap |-> others # {}, removed |-> FALSE, ok |-> FALSE]
                ELSE IF q \in others THEN [calls[q] EXCEPT !.overlap = TRUE]
                ELSE calls[q]]
    /\ ret' = [op |-> "call", p |-> p]
    /\ UNCHANGED <<inter, features, img, seg, guilds, users, contexts, ctxSeq, memories, memSeq, now, env,
                   lastSet, appended, memBy>>

\* interaction p makes its addContext call
ExecAddContext(p) ==
    /\ calls[p].st = "pending"
    /\ LET a == calls[p]
           res == addContext(a.g, a.n, a.c, a.u)
       IN  /\ res.ok => ctxSeq < MaxCtxId
           /\ contexts' = res.rows
           /\ ctxSeq' = IF res.ok THEN ctxSeq + 1 ELSE ctxSeq
           /\ calls' = [calls EXCEPT ![p].st = "done", ![p].ok = res.ok]
           /\ ret' = [op |-> "addContext", g |-> a.g, n |-> a.n, u |-> a.u,
                      c |-> a.c, ok |-> res.ok]
    /\ UNCHANGED <<inter, features, img, seg, guilds, users, memories, memSeq, now, env, lastSet, appended,
                   memBy>>

(***************************************************************************)
(* Memory ledger                                                           *)
(*                                                                         *)
(* A memories row carries id, user_id, role, content and created_at; the   *)
(* model column is written and never read.                                 *)
(***************************************************************************)

Roles == {"user", "assistant"}
MemContents == {"m1", "m2"}

\* the memories table accepts inserts until AUTOINCREMENT reaches this id
MaxMemId == 3
\* the clock stops at this second
MaxTime == 2
\* largest LIMIT argument tried
MaxLimit == 3
\* the limit handleChat passes: getMemoryHistory(userId, 50)
HistoryLimit == 50

\* SQL NULL / JavaScript null for a timestamp (MIN and MAX over no rows)
NoTime == -1

Min(a, b) == IF a < b THEN a ELSE b

Reverse(s) == [i \in 1..Len(s) |-> s[Len(s) + 1 - i]]

\* the ledger key of an interaction of a user in a guild, per guild
ledgerUserPerGuild(guildId, userId) == guildId \o "/" \o userId

\* the ledger key the /memory handlers pass on: interaction.user.id, whatever
\* interaction.guildId is
ledgerUser(guildId, userId) == userId

\* rows without the WHERE clause
memRowsAnyUser(userId) == memories

\* rows WHERE user_id = ?
memRows(userId) == {r \in memories : r.user_id = userId}

\* the id order of a set of rows
ById(S) ==
    CHOOSE s \in [1..Cardinality(S) -> S] :
        \A i, j \in 1..Cardinality(S) : i < j => s[i].id < s[j].id

\* ORDER BY created_at DESC: every arrangement of the rows in which created_at
\* never increases; the statement leaves the order of rows with equal
\* created_at to the query plan
OrderByCreatedAtDesc(S) ==
    {s \in [1..Cardinality(S) -> S] :
        /\ \A i, j \in 1..Cardinality(S) : i # j => s[i] # s[j]
        /\ \A i, j \in 1..Cardinality(S) : i < j => s[i].created_at >= s[j].created_at}

\* LIMIT ?: a negative limit is no limit
Limit(s, limit) == IF limit < 0 THEN s ELSE SubSeq(s, 1, Min(limit, Len(s)))

\* memoryQueries.getMemoryHistory:
\* SELECT * FROM memories WHERE user_id = ? ORDER BY created_at DESC LIMIT ?
\* (the result sets the statement can return)
queryMemoryHistory(userId, limit) ==
    {Limit(s, limit) : s \in OrderByCreatedAtDesc(memRows(userId))}

\* getMemoryHistory(userId, limit): rows.reverse(), before the map to
\* {role, content}
getMemoryHistoryRows(userId, limit) ==
    {Reverse(rows) : rows \in queryMemoryHistory(userId, limit)}

\* .map(row => ({ role: row.role, content: row.content }))
Turns(rows) == [i \in 1..Len(rows) |-> [role |-> rows[i].role, content |-> rows[i].content]]

\* DELETE that also removes the rows of every other user
clearMemoryAllUsers(userId) == memories

\* memoryQueries.clearMemory: DELETE FROM memories WHERE user_id = ?
\* (the rows deleted; result.changes is their number)
clearMemory(userId) == memRows(userId)

\* INSERT that keeps only the newest row of the user
insertMemoryReplacing(userId, role, content) ==
    (memories \ memRows(userId)) \cup
        {[id |-> memSeq + 1, user_id |-> userId, role |-> role, content |-> content,
          created_at |-> now]}

\* addMemoryMessage(userId, role, content, model?): memoryQueries.insertMemory,
\* created_at DEFAULT (unixepoch())
addMemoryMessage(userId, role, content) ==
    memories \cup
        {[id |-> memSeq + 1, user_id |-> userId, role |-> role, content |-> content,
          created_at |-> now]}

\* getMemoryStats(userId): COUNT(*), MIN(created_at), MAX(created_at) of the
\* user's rows; a timestamp that is null or 0 is reported as null, any other
\* as new Date(seconds * 1000)
getMemoryStats(userId) ==
    LET rows == memRows(userId)
        first_at == IF rows = {} THEN NoTime
                    ELSE CHOOSE t \in {r.created_at : r \in rows} :
                            \A r \in rows : t <= r.created_at
        last_at == IF rows = {} THEN NoTime
                   ELSE CHOOSE t \in {r.created_at : r \in rows} :
                            \A r \in rows : t >= r.created_at
    IN  [count |-> Cardinality(rows),
         firstAt |-> IF first_at # NoTime /\ first_at # 0 THEN first_at * 1000 ELSE NoTime,
         lastAt |-> IF last_at # NoTime /\ last_at # 0 THEN last_at * 1000 ELSE NoTime]

\* an interaction of user u in guild g appends a turn
AddMemoryMessage(g, u, role, content) ==
    /\ memSeq < MaxMemId
    /\ memories' = addMemoryMessage(ledgerUser(g, u), role, content)
    /\ memSeq' = memSeq + 1
    /\ memBy' = Append(memBy, [g |-> g, u |-> u])
    /\ appended' = [appended EXCEPT ![u] = @ + 1]
    /\ ret' = [op |-> "addMemoryMessage", g |-> g, u |-> u]
    /\ UNCHANGED <<inter, features, img, seg, guilds, users, contexts, ctxSeq, now, env, calls, lastSet>>

\* an interaction of user u in guild g reads the history
GetMemoryHistory(g, u, limit) ==
    /\ \E rows \in getMemoryHistoryRows(ledgerUser(g, u), limit) :
           ret' = [op |-> "getMemoryHistory", g |-> g, u |-> u, limit |-> limit,
                   ids |-> [i \in 1..Len(rows) |-> rows[i].id],
                   hist |-> Turns(rows)]
    /\ UNCHANGED <<inter, features, img, seg, guilds, users, contexts, ctxSeq, memories, memSeq, now, env,
                   calls, lastSet, appended, memBy>>

\* an interaction of user u in guild g clears the user's memory
ClearMemory(g, u) ==
    /\ LET deleted == clearMemory(ledgerUser(g, u))
       IN  /\ memories' = memories \ deleted
           /\ ret' = [op |-> "clearMemory", g |-> g, u |-> u,
                      changes |-> Cardinality(deleted)]
    /\ appended' = [appended EXCEPT ![u] = 0]
    /\ UNCHANGED <<inter, features, img, seg, guilds, users, contexts, ctxSeq, memSeq, now, env, calls,
                   lastSet, memBy>>

\* an interaction of user u in guild g asks for the statistics
GetMemoryStats(g, u) ==
    /\ ret' = [op |-> "getMemoryStats", g |-> g, u |-> u,
               stats |-> getMemoryStats(ledgerUser(g, u))]
    /\ UNCHANGED <<inter, features, img, seg, guilds, users, contexts, ctxSeq, memories, memSeq, now, env,
                   calls, lastSet, appended, memBy>>

\* unixepoch() moves on by a second
Tick ==
    /\ now < MaxTime
    /\ now' = now + 1
    /\ ret' = [op |-> "tick"]
    /\ UNCHANGED <<inter, features, img, seg, guilds, users, contexts, ctxSeq, memories, memSeq, env, calls,
                   lastSet, appended, memBy>>

(***************************************************************************)
(* Splitting a long reply (commands/chat.ts and commands/memory.ts)        *)
(*                                                                         *)
(* A string is a sequence of characters; indices of the code are 0-based,  *)
(* those of the sequences 1-based.                                         *)
(***************************************************************************)

\* stands for MAX_LENGTH = 4000
MAX_LENGTH == 3

MaxTextLen == 7

\* a letter, and white space of three kinds
Chars == {"a", " ", "\n", "\t"}

\* what String.prototype.trim removes
WhiteSpace == {" ", "\n", "\t"}

\* response.choices[0]?.message?.content || "No response received.": never empty
Texts == UNION {[1..n -> Chars] : n \in 1..MaxTextLen}

MaxShortTextLen == 5

ShortTexts == UNION {[1..n -> Chars] : n \in 1..MaxShortTextLen}

IdleSeg == [pc |-> "idle", text |-> <<>>, remaining |-> <<>>, chunks |-> <<>>]

\* a search that ignores fromIndex
lastIndexOfAnywhere(s, pat, fromIndex) ==
    LET at == {i \in 0..(Len(s) - Len(pat)) : SubSeq(s, i + 1, i + Len(pat)) = pat}
    IN  IF at = {} THEN -1 ELSE CHOOSE i \in at : \A j \in at : j <= i

\* s.lastIndexOf(pat, fromIndex): the last index <= fromIndex where pat starts, or -1
lastIndexOf(s, pat, fromIndex) ==
    LET at == {i \in 0..Min(fromIndex, Len(s) - Len(pat)) :
                   SubSeq(s, i + 1, i + Len(pat)) = pat}
    IN  IF at = {} THEN -1 ELSE CHOOSE i \in at : \A j \in at : j <= i

\* s.substring(start, end), for 0 <= start <= end <= s.length
substring(s, start, end) == SubSeq(s, start + 1, end)

RECURSIVE trimStart(_)
trimStart(s) ==
    IF s # <<>> /\ Head(s) \in WhiteSpace THEN trimStart(Tail(s)) ELSE s

RECURSIVE trimEnd(_)
trimEnd(s) ==
    IF s # <<>> /\ s[Len(s)] \in WhiteSpace THEN trimEnd(SubSeq(s, 1, Len(s) - 1)) ELSE s

\* nothing removed
trimNothing(s) == s

\* s.trim(): white space removed at both ends
trim(s) == trimEnd(trimStart(s))

\* a single newline preferred to a blank line
breakPointNewlineFirst(remaining) ==
    LET nl  == lastIndexOf(remaining, <<"\n">>, MAX_LENGTH)
        sp  == IF nl = -1 \/ 2 * nl < MAX_LENGTH
               THEN lastIndexOf(remaining, <<" ">>, MAX_LENGTH) ELSE nl
    IN  IF sp = -1 THEN MAX_LENGTH ELSE sp

\* a hard cut one character short
breakPointShortCut(remaining) ==
    LET dnl == lastIndexOf(remaining, <<"\n", "\n">>, MAX_LENGTH)
        nl  == IF dnl = -1 \/ 2 * dnl < MAX_LENGTH
               THEN lastIndexOf(remaining, <<"\n">>, MAX_LENGTH) ELSE dnl
        sp  == IF nl = -1 \/ 2 * nl < MAX_LENGTH
               THEN lastIndexOf(remaining, <<" ">>, MAX_LENGTH) ELSE nl
    IN  IF sp = -1 THEN MAX_LENGTH - 1 ELSE sp

\* breakPoint of one iteration: "\n\n", then "\n", then " ", each searched
\* backwards from MAX_LENGTH; breakPoint < MAX_LENGTH / 2 is 2 * breakPoint < MAX_LENGTH
breakPoint(remaining) ==
    LET dnl == lastIndexOf(remaining, <<"\n", "\n">>, MAX_LENGTH)
        nl  == IF dnl = -1 \/ 2 * dnl < MAX_LENGTH
               THEN lastIndexOf(remaining, <<"\n">>, MAX_LENGTH) ELSE dnl
        sp  == IF nl = -1 \/ 2 * nl < MAX_LENGTH
               THEN lastIndexOf(remaining, <<" ">>, MAX_LENGTH) ELSE nl
    IN  IF sp = -1 THEN MAX_LENGTH ELSE sp

\* a short reply sent trimmed
SegStartTrimmed(assistantMessage) ==
    /\ seg.pc = "idle"
    /\ IF Len(assistantMessage) <= MAX_LENGTH
       THEN seg' = [pc |-> "done", text |-> assistantMessage, remaining |-> <<>>,
                    chunks |-> <<trim(assistantMessage)>>]
       ELSE seg' = [pc |-> "loop", text |-> assistantMessage,
                    remaining |-> assistantMessage, chunks |-> <<>>]
    /\ UNCHANGED <<guilds, users, contexts, ctxSeq, memories, memSeq, now, env, calls,
                   ret, lastSet, appended, memBy, inter, features, img>>

\* the reply arrives: a message that fits is sent as it is in one embed,
\* a longer one enters the loop with remaining = assistantMessage
SegStart(assistantMessage) ==
    /\ seg.pc = "idle"
    /\ IF Len(assistantMessage) <= MAX_LENGTH
       THEN seg' = [pc |-> "done", text |-> assistantMessage, remaining |-> <<>>,
                    chunks |-> <<assistantMessage>>]
       ELSE seg' = [pc |-> "loop", text |-> assistantMessage,
                    remaining |-> assistantMessage, chunks |-> <<>>]
    /\ UNCHANGED <<guilds, users, contexts, ctxSeq, memories, memSeq, now, env, calls,
                   ret, lastSet, appended, memBy, inter, features, img>>

\* an iteration whose remaining fits: chunks.push(remaining); break
SegLast ==
    /\ seg.pc = "loop"
    /\ Len(seg.remaining) > 0
    /\ Len(seg.remaining) <= MAX_LENGTH
    /\ seg' = [seg EXCEPT !.pc = "done", !.chunks = Append(@, seg.remaining)]
    /\ UNCHANGED <<guilds, users, contexts, ctxSeq, memories, memSeq, now, env, calls,
                   ret, lastSet, appended, memBy, inter, features, img>>

\* an iteration that cuts: chunks.push(remaining.substring(0, breakPoint));
\* remaining = remaining.substring(breakPoint).trim()
SegCut ==
    /\ seg.pc = "loop"
    /\ Len(seg.remaining) > MAX_LENGTH
    /\ seg' = [seg EXCEPT
                 !.chunks = Append(@, substring(seg.remaining, 0, breakPoint(seg.remaining))),
                 !.remaining = trim(substring(seg.remaining, breakPoint(seg.remaining),
                                              Len(seg.remaining)))]
    /\ UNCHANGED <<guilds, users, contexts, ctxSeq, memories, memSeq, now, env, calls,
                   ret, lastSet, appended, memBy, inter, features, img>>

\* while (remaining.length > 0) is false: the loop ends
SegExit ==
    /\ seg.pc = "loop"
    /\ Len(seg.remaining) = 0
    /\ seg' = [seg EXCEPT !.pc = "done"]
    /\ UNCHANGED <<guilds, users, contexts, ctxSeq, memories, memSeq, now, env, calls,
                   ret, lastSet, appended, memBy, inter, features, img>>

(***************************************************************************)
(* Command handlers (commands/chat.ts, commands/memory.ts,                 *)
(* commands/imagine.ts, commands/scrape.ts).  A handler runs from one      *)
(* await to the next as one step; between two of its steps the steps of    *)
(* other interactions can run.                                             *)
(***************************************************************************)

Features == {"WEBSEARCH", "DEEPSEARCH", "IMAGEGEN", "SCRAPE"}

\* values of DISABLE_<FEATURE> in the environment; NULL is unset
FeatureValues == {NULL, "false", "true", "TRUE", "admin"}

\* ids listed in CONTEXT_ADMIN_USERS
AdminUsers == {"u1"}

\* String.prototype.toLowerCase on the values above
toLowerCase(s) == IF s = "TRUE" THEN "true" ELSE s

\* canUseFeature(interaction, feature).allowed, for interaction.user.id and
\* the member's Administrator permission
canUseFeature(userId, hasAdmin, feature) ==
    LET value == IF features[feature] # NULL /\ Truthy(toLowerCase(features[feature]))
                 THEN toLowerCase(features[feature]) ELSE "false"
    IN  IF value = "false" THEN TRUE
        ELSE IF value = "true" THEN FALSE
        ELSE IF value = "admin" THEN userId \in AdminUsers \/ hasAdmin
        ELSE TRUE

\* process.env.DISABLE_<FEATURE> === "true", the test of /memory chat
isDisabled(feature) == features[feature] = "true"

\* attachment of an interaction: none, an accepted image type, another type
Images == {NULL, "valid", "invalid"}

SYSTEM_PROMPT == "system-prompt"

userMessage == "m1"

assistantReply == "m2"

IdleInter ==
    [pc |-> "idle", cmd |-> NULL, g |-> NULL, u |-> NULL, ctx |-> NULL, image |-> NULL,
     web |-> FALSE, deep |-> FALSE, admin |-> FALSE, messages |-> <<>>, mode |-> "none",
     hist |-> <<>>, oldest |-> <<>>, own |-> {}, called |-> FALSE, replied |-> FALSE,
     end |-> NULL]

\* options of the interaction read at the top of execute / handleChat
Options(cmd, g, u, ctx, image, web, deep, admin) ==
    [IdleInter EXCEPT !.cmd = cmd, !.g = g, !.u = u, !.ctx = ctx, !.image = image,
                      !.web = web, !.deep = deep, !.admin = admin]

\* interaction.reply / editReply with the outcome, and return
Ended(i, end) == [i EXCEPT !.pc = "done", !.replied = TRUE, !.end = end]

\* webSearchMode: deep takes priority over standard
webSearchMode(i) == IF i.deep THEN "deep" ELSE IF i.web THEN "standard" ELSE "none"

\* systemContent: SYSTEM_PROMPT, with the context appended when one is named
systemContent(context) ==
    IF context = <<>> THEN <<SYSTEM_PROMPT>>
    ELSE <<SYSTEM_PROMPT, context[1].name, context[1].content>>

\* the user's message of the request, text only or text and image part
userTurn(i) == [role |-> "user", content |-> userMessage, image |-> i.image # NULL]

\* a turn of the history as a message of the request
historyTurn(t) == [role |-> t.role, content |-> t.content, image |-> FALSE]

systemTurn(context) == [role |-> "system", content |-> systemContent(context), image |-> FALSE]

\* /chat: the feature checks, then deferReply
ChatStart(p, g, u, ctx, image, web, deep, admin) ==
    /\ inter[p].pc = "idle"
    /\ LET i == Options("chat", g, u, ctx, image, web, deep, admin)
           refused == \/ web /\ ~canUseFeature(u, admin, "WEBSEARCH")
                      \/ deep /\ ~canUseFeature(u, admin, "DEEPSEARCH")
       IN  inter' = [inter EXCEPT ![p] =
                        IF refused THEN Ended(i, "refused") ELSE [i EXCEPT !.pc = "deferred"]]
    /\ UNCHANGED <<guilds, users, contexts, ctxSeq, memories, memSeq, now, env, calls,
                   ret, lastSet, appended, memBy, seg, features, img>>

\* a /chat that goes on without the context when it is not found
ChatBuildIgnoreMissing(p) ==
    /\ inter[p].pc = "deferred" /\ inter[p].cmd = "chat"
    /\ LET i == inter[p]
       IN  \E context \in (IF Truthy(i.ctx) THEN getContext(i.g, i.ctx, i.u) ELSE {<<>>}) :
              inter' = [inter EXCEPT ![p] =
                  IF i.image # NULL
                  THEN [i EXCEPT !.pc = "image", !.mode = webSearchMode(i),
                                 !.messages = <<systemTurn(context)>>]
                  ELSE [i EXCEPT !.pc = "api", !.mode = webSearchMode(i), !.called = TRUE,
                                 !.messages = <<systemTurn(context), userTurn(i)>>]]
    /\ UNCHANGED <<guilds, users, contexts, ctxSeq, memories, memSeq, now, env, calls,
                   ret, lastSet, appended, memBy, seg, features, img>>

\* /chat after deferReply: the context lookup and the messages array, up to
\* await processImageAttachment or await nanogpt.chat
ChatBuild(p) ==
    /\ inter[p].pc = "deferred" /\ inter[p].cmd = "chat"
    /\ LET i == inter[p]
       IN  \E context \in (IF Truthy(i.ctx) THEN getContext(i.g, i.ctx, i.u) ELSE {<<>>}) :
              inter' = [inter EXCEPT ![p] =
                  IF Truthy(i.ctx) /\ context = <<>> THEN Ended(i, "nocontext")
                  ELSE IF i.image # NULL
                  THEN [i EXCEPT !.pc = "image", !.mode = webSearchMode(i),
                                 !.messages = <<systemTurn(context)>>]
                  ELSE [i EXCEPT !.pc = "api", !.mode = webSearchMode(i), !.called = TRUE,
                                 !.messages = <<systemTurn(context), userTurn(i)>>]]
    /\ UNCHANGED <<guilds, users, contexts, ctxSeq, memories, memSeq, now, env, calls,
                   ret, lastSet, appended, memBy, seg, features, img>>

\* /chat after processImageAttachment, which gives null for a type that is
\* not accepted and when the download fails
ChatImage(p, fetched) ==
    /\ inter[p].pc = "image" /\ inter[p].cmd = "chat"
    /\ LET i == inter[p]
       IN  inter' = [inter EXCEPT ![p] =
               IF i.image = "invalid" \/ ~fetched THEN Ended(i, "badimage")
               ELSE [i EXCEPT !.pc = "api", !.called = TRUE,
                              !.messages = Append(@, userTurn(i))]]
    /\ UNCHANGED <<guilds, users, contexts, ctxSeq, memories, memSeq, now, env, calls,
                   ret, lastSet, appended, memBy, seg, features, img>>

\* a /chat whose answer is also written to the ledger
ChatReplyStored(p, ok) ==
    /\ inter[p].pc = "api" /\ inter[p].cmd = "chat"
    /\ ok => memSeq < MaxMemId
    /\ inter' = [inter EXCEPT ![p] = Ended(@, IF ok THEN "ok" ELSE "error")]
    /\ memories' = IF ok THEN addMemoryMessage(inter[p].u, "assistant", assistantReply)
                   ELSE memories
    /\ memSeq' = IF ok THEN memSeq + 1 ELSE memSeq
    /\ UNCHANGED <<guilds, users, contexts, ctxSeq, now, env, calls,
                   ret, lastSet, appended, memBy, seg, features, img>>

\* /chat after nanogpt.chat: the answer is sent, or the error is caught and
\* reported
ChatReply(p, ok) ==
    /\ inter[p].pc = "api" /\ inter[p].cmd = "chat"
    /\ inter' = [inter EXCEPT ![p] = Ended(@, IF ok THEN "ok" ELSE "error")]
    /\ UNCHANGED <<guilds, users, contexts, ctxSeq, memories, memSeq, now, env, calls,
                   ret, lastSet, appended, memBy, seg, features, img>>

\* /memory chat: the feature tests, then deferReply
MemoryChatStart(p, g, u, ctx, image, web, deep, admin) ==
    /\ inter[p].pc = "idle"
    /\ LET i == Options("memory", g, u, ctx, image, web, deep, admin)
           refused == \/ web /\ isDisabled("WEBSEARCH")
                      \/ deep /\ isDisabled("DEEPSEARCH")
       IN  inter' = [inter EXCEPT ![p] =
                        IF refused THEN Ended(i, "refused") ELSE [i EXCEPT !.pc = "deferred"]]
    /\ UNCHANGED <<guilds, users, contexts, ctxSeq, memories, memSeq, now, env, calls,
                   ret, lastSet, appended, memBy, seg, features, img>>

\* the ledger after handleChat stored a turn of interaction i
StoreTurn(p, i, role, content) ==
    /\ memSeq < MaxMemId
    /\ memories' = addMemoryMessage(ledgerUser(i.g, i.u), role, content)
    /\ memSeq' = memSeq + 1
    /\ memBy' = Append(memBy, [g |-> i.g, u |-> i.u])
    /\ appended' = [appended EXCEPT ![i.u] = @ + 1]

\* the history of the user in insertion order, the last HistoryLimit turns
OldestFirst(userId) ==
    LET rows == ById(memRows(userId))
    IN  Turns(SubSeq(rows, Len(rows) - Min(HistoryLimit, Len(rows)) + 1, Len(rows)))

\* /memory chat after deferReply: the context lookup, the history, and
\* without an image the user's turn, stored before await nanogpt.chat
MemoryChatBuild(p) ==
    /\ inter[p].pc = "deferred" /\ inter[p].cmd = "memory"
    /\ LET i == inter[p]
       IN  \E context \in (IF Truthy(i.ctx) THEN getContext(i.g, i.ctx, i.u) ELSE {<<>>}) :
             IF Truthy(i.ctx) /\ context = <<>>
             THEN /\ inter' = [inter EXCEPT ![p] = Ended(i, "nocontext")]
                  /\ UNCHANGED <<memories, memSeq, memBy, appended>>
             ELSE \E rows \in getMemoryHistoryRows(ledgerUser(i.g, i.u), HistoryLimit) :
                    LET read == [i EXCEPT
                                   !.mode = webSearchMode(i),
                                   !.hist = [k \in 1..Len(rows) |-> rows[k].id],
                                   !.oldest = OldestFirst(ledgerUser(i.g, i.u)),
                                   !.messages = <<systemTurn(context)>>
                                       \o [k \in 1..Len(rows) |-> historyTurn(Turns(rows)[k])]]
                    IN  IF i.image # NULL
                        THEN /\ inter' = [inter EXCEPT ![p] = [read EXCEPT !.pc = "image"]]
                             /\ UNCHANGED <<memories, memSeq, memBy, appended>>
                        ELSE /\ StoreTurn(p, i, "user", userMessage)
                             /\ inter' = [inter EXCEPT ![p] =
                                    [read EXCEPT !.pc = "api", !.called = TRUE,
                                                 !.own = {memSeq + 1},
                                                 !.messages = Append(@, userTurn(i))]]
    /\ UNCHANGED <<guilds, users, contexts, ctxSeq, now, env, calls,
                   ret, lastSet, seg, features, img>>

\* /memory chat after processImageAttachment
MemoryChatImage(p, fetched) ==
    /\ inter[p].pc = "image" /\ inter[p].cmd = "memory"
    /\ LET i == inter[p]
       IN  IF i.image = "invalid" \/ ~fetched
           THEN /\ inter' = [inter EXCEPT ![p] = Ended(i, "badimage")]
                /\ UNCHANGED <<memories, memSeq, memBy, appended>>
           ELSE /\ StoreTurn(p, i, "user", userMessage)
                /\ inter' = [inter EXCEPT ![p] =
                       [i EXCEPT !.pc = "api", !.called = TRUE, !.own = {memSeq + 1},
                                 !.messages = Append(@, userTurn(i))]]
    /\ UNCHANGED <<guilds, users, contexts, ctxSeq, now, env, calls,
                   ret, lastSet, seg, features, img>>

\* /memory chat after nanogpt.chat: the answer is stored and sent, or the
\* error is caught and reported
MemoryChatReply(p, ok) ==
    /\ inter[p].pc = "api" /\ inter[p].cmd = "memory"
    /\ LET i == inter[p]
       IN  IF ok
           THEN /\ StoreTurn(p, i, "assistant", assistantReply)
                /\ inter' = [inter EXCEPT ![p] = [Ended(i, "ok") EXCEPT !.own = @ \cup {memSeq + 1}]]
           ELSE /\ inter' = [inter EXCEPT ![p] = Ended(i, "error")]
                /\ UNCHANGED <<memories, memSeq, memBy, appended>>
    /\ UNCHANGED <<guilds, users, contexts, ctxSeq, now, env, calls,
                   ret, lastSet, seg, features, img>>

\* /imagine and /scrape: canUseFeature, then deferReply
FeatureStart(p, cmd, feature, g, u, image, admin) ==
    /\ inter[p].pc = "idle"
    /\ LET i == Options(cmd, g, u, NULL, image, FALSE, FALSE, admin)
       IN  inter' = [inter EXCEPT ![p] =
                        IF ~canUseFeature(u, admin, feature) THEN Ended(i, "refused")
                        ELSE [i EXCEPT !.pc = "deferred"]]
    /\ UNCHANGED <<guilds, users, contexts, ctxSeq, memories, memSeq, now, env, calls,
                   ret, lastSet, appended, memBy, seg, features, img>>

ImagineStart(p, g, u, image, admin) == FeatureStart(p, "imagine", "IMAGEGEN", g, u, image, admin)

ScrapeStart(p, g, u, admin) == FeatureStart(p, "scrape", "SCRAPE", g, u, NULL, admin)

\* /imagine and /scrape after deferReply: nanogpt.generateImage (after the
\* input image, when one is attached, was accepted) or nanogpt.scrapeUrls
FeatureCall(p, fetched) ==
    /\ inter[p].pc = "deferred" /\ inter[p].cmd \in {"imagine", "scrape"}
    /\ LET i == inter[p]
       IN  inter' = [inter EXCEPT ![p] =
               IF i.image = "invalid" \/ (i.image = "valid" /\ ~fetched)
               THEN Ended(i, "badimage")
               ELSE [i EXCEPT !.pc = "api", !.called = TRUE, !.mode = i.cmd]]
    /\ UNCHANGED <<guilds, users, contexts, ctxSeq, memories, memSeq, now, env, calls,
                   ret, lastSet, appended, memBy, seg, features, img>>

\* the answer of the remote call, or its error, is reported
FeatureReply(p, ok) ==
    /\ inter[p].pc = "api" /\ inter[p].cmd \in {"imagine", "scrape"}
    /\ inter' = [inter EXCEPT ![p] = Ended(@, IF ok THEN "ok" ELSE "error")]
    /\ UNCHANGED <<guilds, users, contexts, ctxSeq, memories, memSeq, now, env, calls,
                   ret, lastSet, appended, memBy, seg, features, img>>

(***************************************************************************)
(* The image-model cache of commands/imagine.ts                            *)
(***************************************************************************)

\* stands for CACHE_TTL = 5 * 60 * 1000 milliseconds
CACHE_TTL == 1

MaxClock == 3

MaxFetch == 3

\* the list the API returns, mapped to ids
ApiModels == <<"api-model">>

\* the eight fallback ids, as one
DEFAULT_IMAGE_MODELS == <<"hidream">>

\* what nanogpt.getImageModels can do: models, no models, or throw
FetchOutcomes == {"models", "empty", "error"}

IdleImg ==
    [cachedImageModels |-> <<>>, cacheTimestamp |-> 0, clock |-> 1, fetches |-> <<>>,
     call |-> [p \in Procs |-> [pc |-> "idle", now |-> 0, result |-> <<"none">>]]]

\* cachedImageModels.length === 0 || now - cacheTimestamp > CACHE_TTL
stale(cached, timestamp, t) == Len(cached) = 0 \/ t - timestamp > CACHE_TTL

\* getImageModelsCached up to await nanogpt.getImageModels(), or to its
\* return when the cache is fresh
GetImageModelsCached(p) ==
    /\ img.call[p].pc = "idle"
    /\ IF stale(img.cachedImageModels, img.cacheTimestamp, img.clock)
       THEN /\ Len(img.fetches) < MaxFetch
            /\ img' = [img EXCEPT !.fetches = Append(@, img.clock),
                                  !.call[p] = [pc |-> "fetch", now |-> img.clock,
                                               result |-> <<"none">>]]
       ELSE img' = [img EXCEPT !.call[p] = [pc |-> "idle", now |-> img.clock,
                                            result |-> img.cachedImageModels]]
    /\ UNCHANGED <<guilds, users, contexts, ctxSeq, memories, memSeq, now, env, calls,
                   ret, lastSet, appended, memBy, seg, inter, features>>

\* getImageModelsCached after the await, to its return
ImageModelsFetched(p, outcome) ==
    /\ img.call[p].pc = "fetch"
    /\ LET cached == IF outcome = "models" THEN ApiModels
                     ELSE IF outcome = "empty" THEN DEFAULT_IMAGE_MODELS
                     ELSE IF Len(img.cachedImageModels) = 0 THEN DEFAULT_IMAGE_MODELS
                     ELSE img.cachedImageModels
       IN  img' = [img EXCEPT
                     !.cachedImageModels = cached,
                     !.cacheTimestamp = IF outcome = "models" THEN img.call[p].now ELSE @,
                     !.call[p] = [pc |-> "idle", now |-> img.call[p].now, result |-> cached]]
    /\ UNCHANGED <<guilds, users, contexts, ctxSeq, memories, memSeq, now, env, calls,
                   ret, lastSet, appended, memBy, seg, inter, features>>

\* Date.now() moves on
ClockTick ==
    /\ img.clock < MaxClock
    /\ img' = [img EXCEPT !.clock = @ + 1]
    /\ UNCHANGED <<guilds, users, contexts, ctxSeq, memories, memSeq, now, env, calls,
                   ret, lastSet, appended, memBy, seg, inter, features>>

(***************************************************************************)
(* Specifications                                                          *)
(***************************************************************************)

\* the state after db/index.ts has run on a fresh database
Init ==
    /\ guilds = {}
    /\ users = {}
    /\ contexts = {}
    /\ ctxSeq = 0
    /\ memories = {}
    /\ memSeq = 0
    /\ now = 1
    /\ env = NULL
    /\ calls = [p \in Procs |-> IdleCall]
    /\ ret = [op |-> "init"]
    /\ lastSet = [user |-> [u \in Users |-> NULL], guild |-> [g \in Guilds |-> NULL],
                  last |-> NULL, over |-> FALSE]
    /\ appended = [u \in Users |-> 0]
    /\ memBy = <<>>
    /\ seg = IdleSeg
    /\ inter = [p \in Procs |-> IdleInter]
    /\ features = [f \in Features |-> NULL]
    /\ img = IdleImg

\* the same, with any value of DEFAULT_MODEL in the environment
InitPref ==
    /\ guilds = {}
    /\ users = {}
    /\ contexts = {}
    /\ ctxSeq = 0
    /\ memories = {}
    /\ memSeq = 0
    /\ now = 1
    /\ env \in EnvModels
    /\ calls = [p \in Procs |-> IdleCall]
    /\ ret = [op |-> "init"]
    /\ lastSet = [user |-> [u \in Users |-> NULL], guild |-> [g \in Guilds |-> NULL],
                  last |-> NULL, over |-> FALSE]
    /\ appended = [u \in Users |-> 0]
    /\ memBy = <<>>
    /\ seg = IdleSeg
    /\ inter = [p \in Procs |-> IdleInter]
    /\ features = [f \in Features |-> NULL]
    /\ img = IdleImg

\* preference resolver
NextPref ==
    \/ \E g \in Guilds, m \in Models : SetGuildModel(g, m)
    \/ \E u \in Users, m \in Models : SetUserModel(u, m)
    \/ \E g \in Guilds, u \in Users : GetDefaultModel(g, u)

SpecPref == InitPref /\ [][NextPref]_vars

\* context resolver, one call at a time
NextCtx ==
    \/ \E g \in Guilds, n \in Names, u \in Scopes : AddContext(g, n, "c1", u)
    \/ \E g \in Guilds, n \in Names, u \in Scopes : GetContext(g, n, u)
    \/ \E g \in Guilds, u \in Scopes : GetAllContexts(g, u)
    \/ \E g \in Guilds, n \in Names, u \in Scopes : RemoveContext(g, n, u)

SpecCtx == Init /\ [][NextCtx]_vars

\* context resolver under interleaved interactions of one guild
RaceScopes == {"u1", NULL}

NextRace ==
    \/ \E p \in Procs, c \in Contents, u \in RaceScopes : CallAddContext(p, "g1", "n1", c, u)
    \/ \E p \in Procs : ExecAddContext(p)
    \/ \E u \in RaceScopes : RemoveContext("g1", "n1", u)
    \/ \E u \in RaceScopes : GetContext("g1", "n1", u)

SpecRace == Init /\ [][NextRace]_vars

\* context resolver on one name of one guild, with contents that differ
NextCtxContent ==
    \/ \E c \in Contents, u \in RaceScopes : AddContext("g1", "n1", c, u)
    \/ \E u \in RaceScopes : GetContext("g1", "n1", u)
    \/ \E u \in RaceScopes : RemoveContext("g1", "n1", u)

SpecCtxContent == Init /\ [][NextCtxContent]_vars

\* memory ledger: appends, reads with any limit, and the clock
NextMem ==
    \/ \E u \in Users, role \in Roles, content \in MemContents :
          AddMemoryMessage("g1", u, role, content)
    \/ \E u \in Users, limit \in 0..MaxLimit : GetMemoryHistory("g1", u, limit)
    \/ \E u \in Users : ClearMemory("g1", u)
    \/ \E u \in Users : GetMemoryStats("g1", u)
    \/ Tick

SpecMem == Init /\ [][NextMem]_vars

\* memory ledger: appends and clears within one second
NextClear ==
    \/ \E u \in Users, role \in Roles, content \in MemContents :
          AddMemoryMessage("g1", u, role, content)
    \/ \E u \in Users : ClearMemory("g1", u)
    \/ \E u \in Users : GetMemoryStats("g1", u)

SpecClear == Init /\ [][NextClear]_vars

\* memory ledger called from the interactions of two guilds, read as
\* handleChat reads it
NextLedger ==
    \/ \E g \in Guilds, u \in Users : AddMemoryMessage(g, u, "user", "m1")
    \/ \E g \in Guilds, u \in Users : GetMemoryHistory(g, u, HistoryLimit)
    \/ \E g \in Guilds, u \in Users : ClearMemory(g, u)

SpecLedger == Init /\ [][NextLedger]_vars

\* one reply of the model, split for sending
NextSeg ==
    \/ seg.pc = "idle" /\ \E assistantMessage \in Texts : SegStart(assistantMessage)
    \/ SegLast
    \/ SegCut
    \/ SegExit

SpecSeg == Init /\ [][NextSeg]_vars

\* the same on shorter replies, with the loop running on: the handler is not
\* suspended between two iterations (the loop holds no await)
NextSegLive ==
    \/ seg.pc = "idle" /\ \E assistantMessage \in ShortTexts : SegStart(assistantMessage)
    \/ SegLast
    \/ SegCut
    \/ SegExit

SpecSegLive ==
    Init /\ [][NextSegLive]_vars /\ WF_vars(SegLast) /\ WF_vars(SegCut) /\ WF_vars(SegExit)

\* /chat interactions of a user, while turns are appended to the ledger
NextChat ==
    \/ \E p \in Procs, image \in Images :
          ChatStart(p, "g1", "u1", NULL, image, FALSE, FALSE, FALSE)
    \/ \E p \in Procs : ChatBuild(p)
    \/ \E p \in Procs, fetched \in BOOLEAN : ChatImage(p, fetched)
    \/ \E p \in Procs, ok \in BOOLEAN : ChatReply(p, ok)
    \/ \E u \in Users : AddMemoryMessage("g1", u, "user", "m1")

SpecChat == Init /\ [][NextChat]_vars

\* /memory chat interactions, interleaved
NextMemChat ==
    \/ \E p \in Procs, u \in Users, image \in {NULL, "valid"} :
          MemoryChatStart(p, "g1", u, NULL, image, FALSE, FALSE, FALSE)
    \/ \E p \in Procs : MemoryChatBuild(p)
    \/ \E p \in Procs : MemoryChatImage(p, TRUE)
    \/ \E p \in Procs, ok \in BOOLEAN : MemoryChatReply(p, ok)

SpecMemChat == Init /\ [][NextMemChat]_vars

\* one /chat or /memory chat interaction that names a context or carries an
\* attachment, after earlier turns and contexts
NextReject ==
    \/ \E ctx \in {NULL, "n1"}, image \in Images :
          ChatStart("p1", "g1", "u1", ctx, image, FALSE, FALSE, FALSE)
    \/ ChatBuild("p1")
    \/ \E fetched \in BOOLEAN : ChatImage("p1", fetched)
    \/ \E ok \in BOOLEAN : ChatReply("p1", ok)
    \/ \E ctx \in {NULL, "n1"}, image \in Images :
          MemoryChatStart("p1", "g1", "u1", ctx, image, FALSE, FALSE, FALSE)
    \/ MemoryChatBuild("p1")
    \/ \E fetched \in BOOLEAN : MemoryChatImage("p1", fetched)
    \/ \E ok \in BOOLEAN : MemoryChatReply("p1", ok)
    \/ \E u \in Users : AddMemoryMessage("g1", u, "user", "m1")
    \/ \E u \in Scopes : AddContext("g1", "n1", "c1", u)

SpecReject == Init /\ [][NextReject]_vars

\* the state after start-up with any setting of the feature toggles
InitToggle ==
    /\ guilds = {}
    /\ users = {}
    /\ contexts = {}
    /\ ctxSeq = 0
    /\ memories = {}
    /\ memSeq = 0
    /\ now = 1
    /\ env = NULL
    /\ calls = [p \in Procs |-> IdleCall]
    /\ ret = [op |-> "init"]
    /\ lastSet = [user |-> [u \in Users |-> NULL], guild |-> [g \in Guilds |-> NULL],
                  last |-> NULL, over |-> FALSE]
    /\ appended = [u \in Users |-> 0]
    /\ memBy = <<>>
    /\ seg = IdleSeg
    /\ inter = [p \in Procs |-> IdleInter]
    /\ features \in [Features -> FeatureValues]
    /\ img = IdleImg

\* one interaction of each command that offers a feature
NextToggle ==
    \/ \E u \in Users, web \in BOOLEAN, deep \in BOOLEAN, admin \in BOOLEAN :
          ChatStart("p1", "g1", u, NULL, NULL, web, deep, admin)
    \/ ChatBuild("p1")
    \/ \E ok \in BOOLEAN : ChatReply("p1", ok)
    \/ \E u \in Users, web \in BOOLEAN, deep \in BOOLEAN, admin \in BOOLEAN :
          MemoryChatStart("p1", "g1", u, NULL, NULL, web, deep, admin)
    \/ MemoryChatBuild("p1")
    \/ \E ok \in BOOLEAN : MemoryChatReply("p1", ok)
    \/ \E u \in Users, admin \in BOOLEAN : ImagineStart("p1", "g1", u, NULL, admin)
    \/ \E u \in Users, admin \in BOOLEAN : ScrapeStart("p1", "g1", u, admin)
    \/ FeatureCall("p1", TRUE)
    \/ \E ok \in BOOLEAN : FeatureReply("p1", ok)

SpecToggle == InitToggle /\ [][NextToggle]_vars

\* autocomplete interactions of /imagine, interleaved, and the clock
NextImg ==
    \/ \E p \in Procs : GetImageModelsCached(p)
    \/ \E p \in Procs, outcome \in FetchOutcomes : ImageModelsFetched(p, outcome)
    \/ ClockTick

SpecImg == Init /\ [][NextImg]_vars

\* every operation
Next ==
    NextPref \/ NextCtx \/ NextCtxContent \/ NextRace \/ NextMem \/ NextClear \/ NextLedger
        \/ NextSeg \/ NextSegLive \/ NextChat \/ NextMemChat \/ NextReject \/ NextToggle
        \/ NextImg

Spec == Init /\ [][Next]_vars

(***************************************************************************)
(* Properties                                                              *)
(***************************************************************************)

IsPrefix(s, t) == Len(s) <= Len(t) /\ \A i \in 1..Len(s) : s[i] = t[i]

Range(s) == {s[i] : i \in 1..Len(s)}

\* C1: getContext with a userId returns the user-scoped row when there is one,
\* else the server-scoped row of that name when there is one, else null
C1_GetContextUserThenServer ==
    (ret.op = "getContext" /\ ret.u # NULL) =>
        IF KeyRows(ret.g, ret.u, ret.n) # {}
        THEN Len(ret.row) = 1 /\ ret.row[1] \in KeyRows(ret.g, ret.u, ret.n)
        ELSE IF KeyRows(ret.g, NULL, ret.n) # {}
        THEN Len(ret.row) = 1 /\ ret.row[1] \in KeyRows(ret.g, NULL, ret.n)
        ELSE ret.row = <<>>

\* a get returned the personal row while a server row of the same name exists
C1_Witness ==
    /\ ret.op = "getContext" /\ ret.u # NULL
    /\ ret.row # <<>> /\ ret.row[1].user_id = ret.u
    /\ KeyRows(ret.g, NULL, ret.n) # {}

\* C2: the store never holds two context rows with the same
\* (guild_id, user_id-or-null, name), and an addContext that succeeded did not
\* find a row of its key
C2_UniqueTriple ==
    \A r1, r2 \in contexts :
        (r1.guild_id = r2.guild_id /\ r1.user_id = r2.user_id /\ r1.name = r2.name)
            => r1 = r2

\* C3: two addContext calls for the same key that were in flight together, on
\* a key that had no row and with no removal since, end with exactly one
\* success and one duplicate failure
C3_ConcurrentAddOneWinner ==
    \A p, q \in Procs :
        (/\ p # q
         /\ calls[p].st = "done" /\ calls[q].st = "done"
         /\ SameKey(calls[p], calls[q].g, calls[q].n, calls[q].u)
         /\ calls[p].overlap /\ calls[q].overlap
         /\ ~calls[p].pre /\ ~calls[q].pre
         /\ ~calls[p].removed /\ ~calls[q].removed)
            => (calls[p].ok # calls[q].ok)

\* C4: getDefaultModel returns the user's default_model if set, else the
\* guild's if set, else the process-wide fallback
C4_ResolutionOrder ==
    ret.op = "getDefaultModel" =>
        LET userSet == {r \in users : r.id = ret.u /\ Truthy(r.default_model)}
            guildSet == {r \in guilds : r.id = ret.g /\ Truthy(r.default_model)}
        IN  /\ Truthy(ret.model)
            /\ IF userSet # {} THEN ret.model \in {r.default_model : r \in userSet}
               ELSE IF guildSet # {} THEN ret.model \in {r.default_model : r \in guildSet}
               ELSE ret.model = (IF Truthy(env) THEN env ELSE "gpt-4o-mini")

\* with nothing written for the pair, the environment's DEFAULT_MODEL came back
C4_Witness ==
    /\ ret.op = "getDefaultModel" /\ ret.model = "env-model"
    /\ lastSet.user[ret.u] = NULL /\ lastSet.guild[ret.g] = NULL
    /\ lastSet.last # NULL

\* C5: once setUserModel(u, mu) and setGuildModel(g, mg) have both run, in
\* either order, getDefaultModel(g, u) returns the mu of the last setUserModel
C5_UserModelWins ==
    (/\ ret.op = "getDefaultModel"
     /\ lastSet.user[ret.u] # NULL /\ lastSet.guild[ret.g] # NULL)
        => ret.model = lastSet.user[ret.u]

\* the guild was written after the user, with another model, and the user's
\* model came back
C5_Witness ==
    /\ ret.op = "getDefaultModel" /\ lastSet.last = "guild"
    /\ lastSet.user[ret.u] # NULL /\ lastSet.guild[ret.g] # NULL
    /\ lastSet.user[ret.u] # lastSet.guild[ret.g]
    /\ ret.model = lastSet.user[ret.u]

C8_SameHistoryInEveryGuild ==
    LET mine == {r \in memories : memBy[r.id].u = ret.u}
    IN  (ret.op = "getMemoryHistory" /\ ret.limit >= Cardinality(mine))
            => {r.id : r \in mine} = Range(ret.ids)

\* a read in one guild returned a turn appended in another
C8_Witness ==
    /\ ret.op = "getMemoryHistory"
    /\ \E i \in 1..Len(ret.ids) : memBy[ret.ids[i]].g # ret.g

\* C9: a step leaves each user's rows, in id order, a prefix of what they
\* are after it, unless the step is clearMemory of that user, which leaves
\* none of them
C9_AppendOnly ==
    [][\A u \in Users :
          LET before == ById({r \in memories : r.user_id = u})
              after == ById({r \in memories' : r.user_id = u})
          IN  \/ IsPrefix(before, after)
              \/ ret'.op = "clearMemory" /\ ret'.u = u /\ after = <<>>]_vars

\* a turn was appended after an earlier turn of the same user
C9_Witness ==
    /\ ret.op = "addMemoryMessage"
    /\ Cardinality(memRows(ret.u)) >= 2
    /\ \E r \in memories : r.user_id # ret.u

\* C10: clearMemory(u) returns the number of appends for u since the last
\* clear; after it every history of u is empty and the stats are count 0
\* with both timestamps null
C10_ClearReturnsCount ==
    [][\A u \in Users :
          (ret'.op = "clearMemory" /\ ret'.u = u) =>
              /\ ret'.changes = appended[u]
              /\ \A limit \in 0..MaxLimit : getMemoryHistoryRows(u, limit)' = {<<>>}
              /\ getMemoryStats(u)' = [count |-> 0, firstAt |-> NoTime, lastAt |-> NoTime]
      ]_vars

\* a clear removed two or more turns while another user keeps some
C10_Witness ==
    /\ ret.op = "clearMemory" /\ ret.changes >= 2
    /\ \E r \in memories : r.user_id # ret.u

\* C11: an addContext that succeeded, followed at once by getContext in the
\* same scope, gets a row holding the content just inserted
C11_AddThenGet ==
    [][(/\ ret.op = "addContext" /\ ret.ok
        /\ ret'.op = "getContext"
        /\ ret'.g = ret.g /\ ret'.n = ret.n /\ ret'.u = ret.u)
           => (ret'.row # <<>> /\ ret'.row[1].content = ret.c)]_vars

\* C12: getAllContexts(g, u) returns only rows of guild g and user u, and
\* getAllContexts(g) only rows of guild g with user_id NULL
C12_ListNeverMerges ==
    ret.op = "getAllContexts" =>
        /\ \A r \in ret.rows : r.guild_id = ret.g /\ r.user_id = ret.u
        /\ \A r \in contexts : (r.guild_id = ret.g /\ r.user_id = ret.u) => r \in ret.rows

\* a personal listing left out a server context that getContext falls back to
C12_Witness ==
    /\ ret.op = "getAllContexts" /\ ret.u # NULL
    /\ \E r \in contexts :
          /\ r.guild_id = ret.g /\ r.user_id = NULL
          /\ KeyRows(ret.g, ret.u, r.name) = {}
          /\ getContext(ret.g, r.name, ret.u) = {<<r>>}
          /\ r \notin ret.rows

\* C13: removeContext deletes the rows of its own scope and no other, returns
\* true exactly when there was one, and after a personal row is removed
\* getContext for that user gives the server row of the name
C13_RemoveOwnScopeOnly ==
    [][\A g \in Guilds, n \in Names, u \in Scopes :
          (ret'.op = "removeContext" /\ ret'.g = g /\ ret'.n = n /\ ret'.u = u) =>
              /\ ret'.ok = (KeyRows(g, u, n) # {})
              /\ contexts' = contexts \ KeyRows(g, u, n)
              /\ (~ret'.ok => contexts' = contexts)
              /\ (u # NULL /\ KeyRows(g, NULL, n) # {}) =>
                    getContext(g, n, u)' = {<<r>> : r \in KeyRows(g, NULL, n)}
      ]_vars

\* a personal context was removed while the server context of its name stays
C13_Witness ==
    /\ ret.op = "removeContext" /\ ret.ok /\ ret.u # NULL
    /\ KeyRows(ret.g, NULL, ret.n) # {}

\* C20: each id has one row exactly when it was written, holding the model of
\* the last write, and a call that repeats the one before it changes nothing
C20_UpsertLastWriteWins ==
    [][/\ \A u \in Users :
             {r \in users' : r.id = u} =
                 (IF lastSet'.user[u] = NULL THEN {}
                  ELSE {[id |-> u, default_model |-> lastSet'.user[u]]})
       /\ \A g \in Guilds :
             {r \in guilds' : r.id = g} =
                 (IF lastSet'.guild[g] = NULL THEN {}
                  ELSE {[id |-> g, default_model |-> lastSet'.guild[g]]})
       /\ (ret' = ret /\ ret.op \in {"setUserModel", "setGuildModel"})
             => (users' = users /\ guilds' = guilds)]_vars

\* a write replaced the model an earlier write had stored
C20_Witness ==
    /\ ret.op = "setGuildModel" /\ lastSet.over
    /\ getGuild(ret.g) = {[id |-> ret.g, default_model |-> ret.model]}

\* cs occur in t one after the other, in this order, without overlap
RECURSIVE InOrder(_, _)
InOrder(t, cs) ==
    \/ cs = <<>>
    \/ \E k \in 0..(Len(t) - Len(cs[1])) :
          /\ SubSeq(t, k + 1, k + Len(cs[1])) = cs[1]
          /\ InOrder(SubSeq(t, k + Len(cs[1]) + 1, Len(t)), Tail(cs))

\* C14: the chunks are pieces of the message in message order, none longer
\* than MAX_LENGTH, and a finished split has at least one
C14_ChunksOrderedAndBounded ==
    /\ \A i \in 1..Len(seg.chunks) : Len(seg.chunks[i]) <= MAX_LENGTH
    /\ InOrder(seg.text, seg.chunks)
    /\ seg.pc = "done" => Len(seg.chunks) >= 1

\* a message cut twice, with a chunk of the full length
C14_Witness ==
    /\ seg.pc = "done"
    /\ Len(seg.chunks) >= 3
    /\ \E i \in 1..Len(seg.chunks) : Len(seg.chunks[i]) = MAX_LENGTH

\* C15: every cut keeps the text before it as the chunk and drops only the
\* white space at the start of the text after it; the last chunk is what remains
C15_OnlyStartOfTailTrimmed ==
    [][/\ (seg.pc = "loop" /\ Len(seg.remaining) > MAX_LENGTH) =>
             LET chunk == seg'.chunks[Len(seg'.chunks)]
             IN  /\ IsPrefix(chunk, seg.remaining)
                 /\ seg'.remaining =
                        trimStart(SubSeq(seg.remaining, Len(chunk) + 1, Len(seg.remaining)))
       /\ (seg.pc = "loop" /\ seg'.pc = "done" /\ seg'.chunks # seg.chunks) =>
             seg'.chunks[Len(seg'.chunks)] = seg.remaining]_vars

\* the cut position as stated: the last "\n\n", else the last "\n", else the
\* last " ", each only when at or after MAX_LENGTH / 2, else MAX_LENGTH
SeparatorFromHalf(remaining, pat) ==
    LET i == lastIndexOf(remaining, pat, MAX_LENGTH)
    IN  IF i # -1 /\ 2 * i >= MAX_LENGTH THEN i ELSE -1

CutFromHalf(remaining) ==
    IF SeparatorFromHalf(remaining, <<"\n", "\n">>) # -1
    THEN SeparatorFromHalf(remaining, <<"\n", "\n">>)
    ELSE IF SeparatorFromHalf(remaining, <<"\n">>) # -1
    THEN SeparatorFromHalf(remaining, <<"\n">>)
    ELSE IF SeparatorFromHalf(remaining, <<" ">>) # -1
    THEN SeparatorFromHalf(remaining, <<" ">>)
    ELSE MAX_LENGTH

\* C16: every cut is at the last "\n\n" if that is at or after half of
\* MAX_LENGTH, else at the last "\n" at or after half, else at the last " "
\* at or after half, else at MAX_LENGTH
C16_CutNeverBeforeHalf ==
    [][(seg.pc = "loop" /\ Len(seg.remaining) > MAX_LENGTH) =>
          Len(seg'.chunks[Len(seg'.chunks)]) = CutFromHalf(seg.remaining)]_vars

\* index of the last "\n\n" of the message that starts at or before MAX_LENGTH
LastBlankLine == lastIndexOf(seg.text, <<"\n", "\n">>, MAX_LENGTH)

\* C17 as stated: a message longer than MAX_LENGTH with a "\n\n" at or before
\* the limit has its first chunk end at the last such "\n\n"
C17_FirstChunkAtLastBlankLine ==
    (Len(seg.text) > MAX_LENGTH /\ Len(seg.chunks) >= 1 /\ LastBlankLine # -1) =>
        seg.chunks[1] = substring(seg.text, 0, LastBlankLine)

\* C17: a message longer than MAX_LENGTH whose last "\n\n" starting at or
\* before MAX_LENGTH is at or after MAX_LENGTH / 2 has its first chunk end there
C17_FirstChunkAtLastBlankLineFromHalf ==
    (/\ Len(seg.text) > MAX_LENGTH /\ Len(seg.chunks) >= 1
     /\ LastBlankLine # -1 /\ 2 * LastBlankLine >= MAX_LENGTH) =>
        seg.chunks[1] = substring(seg.text, 0, LastBlankLine)

\* the first chunk ends at a "\n\n" in the second half, before MAX_LENGTH
C17_Witness ==
    /\ Len(seg.text) > MAX_LENGTH /\ Len(seg.chunks) >= 2
    /\ LastBlankLine # -1 /\ 2 * LastBlankLine >= MAX_LENGTH
    /\ LastBlankLine < MAX_LENGTH
    /\ seg.chunks[1] = substring(seg.text, 0, LastBlankLine)

\* the message cut every MAX_LENGTH characters
RECURSIVE HardCuts(_)
HardCuts(t) ==
    IF Len(t) <= MAX_LENGTH THEN <<t>>
    ELSE <<SubSeq(t, 1, MAX_LENGTH)>> \o HardCuts(SubSeq(t, MAX_LENGTH + 1, Len(t)))

\* C18 as stated: a message without " " and without "\n" is cut every
\* MAX_LENGTH characters and nothing of it is lost
C18_HardCutsWithoutSpaceOrNewline ==
    (seg.pc = "done" /\ Range(seg.text) \cap {" ", "\n"} = {}) =>
        seg.chunks = HardCuts(seg.text)

\* C18: a message without white space of any kind is cut every MAX_LENGTH
\* characters and nothing of it is lost
C18_HardCutsWithoutWhiteSpace ==
    (seg.pc = "done" /\ Range(seg.text) \cap WhiteSpace = {}) =>
        seg.chunks = HardCuts(seg.text)

\* a message without white space, cut twice
C18_Witness ==
    /\ seg.pc = "done"
    /\ Range(seg.text) \cap WhiteSpace = {}
    /\ Len(seg.text) > 2 * MAX_LENGTH
    /\ Len(seg.chunks) = 3

\* C19: a message of at most MAX_LENGTH characters is sent as one chunk equal
\* to the message, white space at its ends included
C19_ShortMessageUnchanged ==
    (seg.pc = "done" /\ Len(seg.text) <= MAX_LENGTH) => seg.chunks = <<seg.text>>

\* a message of exactly MAX_LENGTH characters with white space at both ends
C19_Witness ==
    /\ seg.pc = "done"
    /\ Len(seg.text) = MAX_LENGTH
    /\ seg.text[1] \in WhiteSpace /\ seg.text[Len(seg.text)] \in WhiteSpace
    /\ seg.chunks = <<seg.text>>

\* C26: an append or a clear for user u leaves the history (cut to one turn
\* and in full) and the statistics of every other user as they were, and no history of a
\* user holds a row appended for another
C26_LedgerPerUser ==
    [][/\ \A u \in Users :
             (ret'.op \in {"addMemoryMessage", "clearMemory"} /\ ret'.u = u) =>
                 \A v \in Users \ {u} :
                     /\ getMemoryStats(v)' = getMemoryStats(v)
                     /\ \A limit \in {1, HistoryLimit} :
                            getMemoryHistoryRows(v, limit)' = getMemoryHistoryRows(v, limit)
       /\ \A u \in Users, limit \in {1, HistoryLimit} :
             \A rows \in getMemoryHistoryRows(u, limit)' :
                 \A i \in 1..Len(rows) : memBy'[rows[i].id].u = u]_vars

\* a user's memory was cleared while another user has turns
C26_Witness ==
    /\ ret.op = "clearMemory" /\ ret.changes > 0
    /\ \E v \in Users \ {ret.u} : memRows(v) # {}

\* C27: a row carries the guild of the call that added it; getContext and
\* getAllContexts return rows of the guild they are called with only, and
\* removeContext deletes rows of that guild only
C27_ContextsStayInGuild ==
    [][/\ ret'.op = "addContext" => \A r \in contexts' \ contexts : r.guild_id = ret'.g
       /\ (ret'.op = "getContext" /\ ret'.row # <<>>) => ret'.row[1].guild_id = ret'.g
       /\ ret'.op = "getAllContexts" => \A r \in ret'.rows : r.guild_id = ret'.g
       /\ ret'.op = "removeContext" => \A r \in contexts \ contexts' : r.guild_id = ret'.g
      ]_vars

\* a user's personal context of one guild is not found from another guild
C27_Witness ==
    /\ ret.op = "getContext" /\ ret.u # NULL /\ ret.row = <<>>
    /\ \E r \in contexts : r.user_id = ret.u /\ r.name = ret.n /\ r.guild_id # ret.g

\* C28: no chunk of a message longer than MAX_LENGTH is the empty string
C28_NoEmptyChunk ==
    Len(seg.text) > MAX_LENGTH => \A i \in 1..Len(seg.chunks) : seg.chunks[i] # <<>>

\* C29: every cutting iteration leaves remaining shorter than it was, and a
\* loop that was entered ends
C29_LoopTerminates ==
    /\ [][(seg.pc = "loop" /\ seg'.pc = "loop") =>
             Len(seg'.remaining) < Len(seg.remaining)]_vars
    /\ (seg.pc = "loop") ~> (seg.pc = "done" /\ Len(seg.chunks) >= 1)

\* the loop ended after an iteration that cut at index 0
C29_Witness ==
    /\ seg.pc = "done"
    /\ Len(seg.chunks) >= 2
    /\ \E i \in 1..Len(seg.chunks) : seg.chunks[i] = <<>>

\* C21: a step of a /chat interaction leaves the memories table, and with it
\* every user's history and statistics, as it was, and the request of a
\* /chat holds the system message and the user's message only
C21_ChatLeavesLedger ==
    [][\A p \in Procs :
          (inter'[p] # inter[p] /\ inter'[p].cmd = "chat") =>
              /\ memories' = memories /\ memSeq' = memSeq
              /\ \A u \in Users :
                    /\ getMemoryStats(u)' = getMemoryStats(u)
                    /\ getMemoryHistoryRows(u, HistoryLimit)' =
                           getMemoryHistoryRows(u, HistoryLimit)
              /\ inter'[p].called =>
                    /\ Len(inter'[p].messages) = 2
                    /\ inter'[p].messages[1].role = "system"
                    /\ inter'[p].messages[2] = userTurn(inter'[p])]_vars

\* a /chat of a user who has turns in the ledger was answered
C21_Witness ==
    \E p \in Procs :
        /\ inter[p].cmd = "chat" /\ inter[p].end = "ok"
        /\ memRows(inter[p].u) # {}

\* the features an interaction asks for
Requested(i) ==
    IF i.cmd \in {"chat", "memory"}
    THEN {f \in {"WEBSEARCH"} : i.web} \cup {f \in {"DEEPSEARCH"} : i.deep}
    ELSE IF i.cmd = "imagine" THEN {"IMAGEGEN"}
    ELSE IF i.cmd = "scrape" THEN {"SCRAPE"}
    ELSE {}

\* the toggle of feature f excludes the user of interaction i: set to true,
\* or set to admin for a user who is no administrator
Excluded(i, f) ==
    /\ features[f] # NULL
    /\ \/ toLowerCase(features[f]) = "true"
       \/ toLowerCase(features[f]) = "admin" /\ i.u \notin AdminUsers /\ ~i.admin

\* C22: no command makes its remote call for a user whom the toggle of a
\* feature it asks for excludes, and a command is refused only for such a
\* user
C22_TogglesEnforced ==
    \A p \in Procs :
        /\ inter[p].called => \A f \in Requested(inter[p]) : ~Excluded(inter[p], f)
        /\ inter[p].end = "refused" => \E f \in Requested(inter[p]) : Excluded(inter[p], f)

C24_RolesAlternate ==
    \A u \in Users :
        LET rows == ById(memRows(u))
        IN  \A k \in 1..(Len(rows) - 1) : rows[k].role # rows[k + 1].role

\* C25: an interaction that names a context found in neither scope, or that
\* carries an attachment of a type not accepted, is answered without a call
\* to the remote API and without a change of the ledger
C25_RejectedBeforeCall ==
    [][\A p \in Procs :
          LET i == inter[p]
              j == inter'[p]
          IN  /\ (/\ i.pc = "deferred" /\ j # i /\ Truthy(i.ctx)
                  /\ getContext(i.g, i.ctx, i.u) = {<<>>}) =>
                     /\ j.pc = "done" /\ j.replied /\ ~j.called
                     /\ memories' = memories
              /\ (i.pc \in {"deferred", "image"} /\ j # i /\ i.image = "invalid") =>
                     /\ ~j.called
                     /\ memories' = memories
                     /\ i.pc = "image" => (j.pc = "done" /\ j.replied)
              /\ j.end \in {"nocontext", "badimage"} => (j.own = {} /\ ~j.called)]_vars

\* a /memory chat ended on a context that only another user holds, and the
\* caller has turns in the ledger
C25_Witness ==
    /\ inter["p1"].cmd = "memory" /\ inter["p1"].end = "nocontext"
    /\ \E r \in contexts : r.name = inter["p1"].ctx /\ r.user_id = "u2"
    /\ memRows(inter["p1"].u) # {}

\* C30: two contacts of the image-models API are more than CACHE_TTL apart,
\* and a list returned is never empty
C30_OneFetchPerWindow ==
    /\ \A k \in 1..(Len(img.fetches) - 1) : img.fetches[k + 1] - img.fetches[k] > CACHE_TTL
    /\ \A p \in Procs : img.call[p].result # <<>>

====
